---- MODULE Spec2Model ----
(***************************************************************************)
(* Model of ab_versions (src/src/lib.rs): reading the version and the      *)
(* protection state of a FactoryTalk View compound file, and stripping the *)
(* protection.  A container is a map from stream names to streams; the cfb *)
(* calls the code makes (open_stream, create_new_stream, set_len,          *)
(* write_all, read_to_end) act on it in the order the code makes them.     *)
(***************************************************************************)
EXTENDS Integers, Sequences, FiniteSets, TLC

VARIABLES
    file,      \* the container on disk: stream name -> stream
    pc,        \* position of the running strip_protection call, or "idle"
    version,   \* strip_protection's local `version`
    before,    \* the container when the last call started
    prev,      \* the call completed before the last call started
    last,      \* the last completed call: [op, res]
    bop,       \* batch: which batch function runs
    bfiles,    \* batch: the containers behind the paths of `files`
    binit,     \* batch: bfiles when the batch call started
    bstate,    \* batch: per index "todo" | "running" | "done"
    bres,      \* batch: per index the result the closure produced
    full,      \* batch: the short-circuit flag of collect::<Result<(), _>>
    saved,     \* batch: the first error saved by collect::<Result<(), _>>
    bret       \* batch: the value the batch function returned

svars == <<file, pc, version, before, prev, last>>
bvars == <<bop, bfiles, binit, bstate, bres, full, saved, bret>>
vars == <<file, pc, version, before, prev, last,
          bop, bfiles, binit, bstate, bres, full, saved, bret>>

----------------------------------------------------------------------------
(* Bounds of the model *)

\* longest /VERSION_INFORMATION stream of the sampled containers
MaxVerLen == 4
\* longest /FILE_PROTECTION stream of the sampled containers
MaxProtLen == 12
\* longest stream of the exhaustive inputs of get_version
MaxVerInput == 4
\* longest stream of the exhaustive inputs of is_protected
MaxProtInput == 8
\* number of paths handed to a batch function
NFiles == 3

----------------------------------------------------------------------------
(* Program constants *)

VERSION_INFORMATION == "/VERSION_INFORMATION"
FILE_PROTECTION == "/FILE_PROTECTION"
\* stands for every stream of the container the code never names
OTHER_STREAM == "/OTHER"
StreamNames == {VERSION_INFORMATION, FILE_PROTECTION, OTHER_STREAM}

\* the length of a valid version stream
VersionLen == 3
\* the length of an unlocked protection stream
ProtectionLen == 7
\* the first major revision that carries a /FILE_PROTECTION stream
OldBelow == 5

\* the bytes is_protected recognises as "Never Convert"
NeverConvertPattern == <<0, 3, 0, 1, 0, 0, 0>>
\* a mutation of the bytes strip_protection writes: the 4th byte set
UnlockedPatternNever == <<0, 3, 0, 1, 0, 0, 0>>
\* the bytes strip_protection writes to /FILE_PROTECTION
UnlockedPattern == <<0, 3, 0, 0, 0, 0, 0>>
\* a mutation of the version stamp: a major revision that is still old
VersionStampOld == <<3, 4, 10>>
\* the bytes strip_protection writes to /VERSION_INFORMATION (5.10)
VersionStamp == <<3, 5, 10>>

----------------------------------------------------------------------------
(* Values *)

Stream(d) == [exists |-> TRUE, data |-> d]
NoStream == [exists |-> FALSE, data |-> <<>>]

Ok(v) == [ok |-> v]
Err(e) == [err |-> e]
IsOk(r) == "ok" \in DOMAIN r
IsErr(r) == "err" \in DOMAIN r
UNIT == "()"
\* FtvFileError::IoError, by the kind of the io::Error it wraps
IoErrors == {"Io(NotFound)", "Io(AlreadyExists)", "Io(Other)"}
IsIo(r) == IsErr(r) /\ r.err \in IoErrors

FileVersion(M, m) == [major_rev |-> M, minor_rev |-> m]
DefaultVersion == FileVersion(0, 0)

is_old(v) == v.major_rev < OldBelow

----------------------------------------------------------------------------
(* The cfb stream calls the code makes *)

\* a mutation of set_len: extends, never truncates
set_len_no_truncate(data, n, fill) ==
    IF Len(data) >= n THEN data
    ELSE data \o [i \in 1..(n - Len(data)) |-> fill]

\* Stream::set_len: truncate, or extend with bytes the library chooses
set_len(data, n, fill) ==
    IF Len(data) >= n THEN SubSeq(data, 1, n)
    ELSE data \o [i \in 1..(n - Len(data)) |-> fill]

\* Write::write_all on a freshly opened stream: overwrites from offset 0
write_all(data, bytes) ==
    bytes \o (IF Len(data) > Len(bytes)
              THEN SubSeq(data, Len(bytes) + 1, Len(data)) ELSE <<>>)

----------------------------------------------------------------------------
(* get_version and is_protected *)

\* a mutation of get_version: decodes bytes 0 and 1
get_version_shifted(f) ==
    IF ~f[VERSION_INFORMATION].exists THEN Err("NoVersion")
    ELSE LET version_data == f[VERSION_INFORMATION].data IN
         IF Len(version_data) = VersionLen
         THEN Ok(FileVersion(version_data[1], version_data[2]))
         ELSE Err("InvalidVersion")

\* get_version; Rust's version_data[1], version_data[2] are the 2nd and 3rd byte
get_version(f) ==
    IF ~f[VERSION_INFORMATION].exists THEN Err("NoVersion")
    ELSE LET version_data == f[VERSION_INFORMATION].data IN
         IF Len(version_data) = VersionLen
         THEN Ok(FileVersion(version_data[2], version_data[3]))
         ELSE Err("InvalidVersion")

\* a mutation of is_protected: the comparison with the pattern inverted
is_protected_inverted(f) ==
    IF ~f[FILE_PROTECTION].exists THEN Err("Io(NotFound)")
    ELSE LET buf == f[FILE_PROTECTION].data IN
         Ok(IF Len(buf) = ProtectionLen
            THEN buf # NeverConvertPattern
            ELSE Len(buf) > ProtectionLen)

\* a mutation of is_protected: a short stream that starts 00 03 is locked
is_protected_by_content(f) ==
    IF ~f[FILE_PROTECTION].exists THEN Err("Io(NotFound)")
    ELSE LET buf == f[FILE_PROTECTION].data IN
         Ok(IF Len(buf) = ProtectionLen
            THEN buf = NeverConvertPattern
            ELSE Len(buf) > ProtectionLen
                 \/ (Len(buf) >= 2 /\ buf[1] = 0 /\ buf[2] = 3))

\* is_protected
is_protected(f) ==
    IF ~f[FILE_PROTECTION].exists THEN Err("Io(NotFound)")
    ELSE LET buf == f[FILE_PROTECTION].data IN
         Ok(IF Len(buf) = ProtectionLen
            THEN buf = NeverConvertPattern
            ELSE Len(buf) > ProtectionLen)

----------------------------------------------------------------------------
(* strip_protection, one cfb call at a time.  A call's local state is      *)
(* s = [pc, file, version, res]; pc = "return" once it has returned res.   *)

Pending == Err("pending")
Return(s, r) == [s EXCEPT !.pc = "return", !.res = r]
Goto(s, p) == [s EXCEPT !.pc = p]

\* cfb::open_rw(&path)?
strip_open_rw(s) == Goto(s, "get_version")

\* let version = get_version(&path)?; if version.major_rev < 5 {..} else {..}
strip_get_version(s) ==
    LET r == get_version(s.file) IN
    IF IsErr(r) THEN Return(s, r)
    ELSE [s EXCEPT !.version = r.ok,
                   !.pc = IF r.ok.major_rev < OldBelow THEN "create_fp"
                          ELSE "open_fp"]

\* file.create_new_stream("/FILE_PROTECTION")?
strip_create_fp(s) ==
    IF s.file[FILE_PROTECTION].exists THEN Return(s, Err("Io(AlreadyExists)"))
    ELSE [s EXCEPT !.file[FILE_PROTECTION] = Stream(<<>>), !.pc = "old_set_len"]

\* fp_stream.set_len(7)?
strip_old_set_len(s, fill) ==
    [s EXCEPT !.file[FILE_PROTECTION] =
                  Stream(set_len(@.data, ProtectionLen, fill)),
              !.pc = "old_write"]

\* a mutation of strip_old_write: the write is lost
strip_old_write_lost(s) == Goto(s, "open_ver")

\* fp_stream.write_all(&[0x00, 0x03, 0x00, 0x00, 0x00, 0x00, 0x00])?
strip_old_write(s) ==
    [s EXCEPT !.file[FILE_PROTECTION] = Stream(write_all(@.data, UnlockedPattern)),
              !.pc = "open_ver"]

\* file.open_stream("/VERSION_INFORMATION")?
strip_open_ver(s) ==
    IF ~s.file[VERSION_INFORMATION].exists THEN Return(s, Err("Io(NotFound)"))
    ELSE Goto(s, "ver_write")

\* a mutation of strip_ver_write: the version stamp is not rewritten
strip_ver_write_skipped(s) == Return(s, Ok(UNIT))

\* ver_stream.write_all(&[0x03, 0x05, 0x0A])?; Ok(())
strip_ver_write(s) ==
    Return([s EXCEPT !.file[VERSION_INFORMATION] =
                         Stream(write_all(@.data, VersionStamp))],
           Ok(UNIT))

\* a mutation of strip_open_fp: a missing stream is created
strip_open_fp_creating(s) ==
    IF ~s.file[FILE_PROTECTION].exists
    THEN [s EXCEPT !.file[FILE_PROTECTION] = Stream(<<>>), !.pc = "new_set_len"]
    ELSE Goto(s, "new_set_len")

\* file.open_stream("/FILE_PROTECTION")?
strip_open_fp(s) ==
    IF ~s.file[FILE_PROTECTION].exists THEN Return(s, Err("Io(NotFound)"))
    ELSE Goto(s, "new_set_len")

\* stream.set_len(7)?
strip_new_set_len(s, fill) ==
    [s EXCEPT !.file[FILE_PROTECTION] =
                  Stream(set_len(@.data, ProtectionLen, fill)),
              !.pc = "new_write"]

\* stream.write_all(&[0x00, 0x03, 0x00, 0x00, 0x00, 0x00, 0x00])?; Ok(())
strip_new_write(s) ==
    Return([s EXCEPT !.file[FILE_PROTECTION] =
                         Stream(write_all(@.data, UnlockedPattern))],
           Ok(UNIT))

StripPcs == {"open_rw", "get_version", "create_fp", "old_set_len", "old_write",
             "open_ver", "ver_write", "open_fp", "new_set_len", "new_write"}

\* the next statement of strip_protection
strip_step(s, fill) ==
    CASE s.pc = "open_rw" -> strip_open_rw(s)
      [] s.pc = "get_version" -> strip_get_version(s)
      [] s.pc = "create_fp" -> strip_create_fp(s)
      [] s.pc = "old_set_len" -> strip_old_set_len(s, fill)
      [] s.pc = "old_write" -> strip_old_write(s)
      [] s.pc = "open_ver" -> strip_open_ver(s)
      [] s.pc = "ver_write" -> strip_ver_write(s)
      [] s.pc = "open_fp" -> strip_open_fp(s)
      [] s.pc = "new_set_len" -> strip_new_set_len(s, fill)
      [] s.pc = "new_write" -> strip_new_write(s)

RECURSIVE strip_run(_, _)
strip_run(s, fill) ==
    IF s.pc = "return" THEN s ELSE strip_run(strip_step(s, fill), fill)

\* strip_protection from call to return: [file, res]
strip_protection(f, fill) ==
    LET s == strip_run([pc |-> "open_rw", file |-> f,
                        version |-> DefaultVersion, res |-> Pending], fill)
    IN [file |-> s.file, res |-> s.res]

----------------------------------------------------------------------------
(* The containers the model starts from *)

\* the byte values a set_len that extends may leave in the new bytes
FillBytes == {0, 1}

\* p cut or zero-extended to n bytes
Resize(p, n) ==
    IF Len(p) >= n THEN SubSeq(p, 1, n) ELSE p \o [i \in 1..(n - Len(p)) |-> 0]

\* every byte sequence over B of length at most n
RECURSIVE SeqsUpTo(_, _)
SeqsUpTo(B, n) ==
    IF n = 0 THEN {<<>>}
    ELSE LET shorter == SeqsUpTo(B, n - 1) IN
         shorter \cup {Append(q, b) : q \in {x \in shorter : Len(x) = n - 1}, b \in B}

\* version streams: every (byte 0, major, minor) over a few values, and a
\* stream of every other length
VersionSamples ==
    {<<b0, M, m>> : b0 \in {0, 1}, M \in {3, 4, 5, 7}, m \in {2, 3, 10}}
    \cup {Resize(<<0, 7, 3>>, n) : n \in (0..MaxVerLen) \ {VersionLen}}

\* protection streams of every length: unlocked, never-convert and
\* password-like contents
ProtectionSamples ==
    {Resize(p, n) : p \in {<<0, 3, 0, 0, 0, 0, 0>>, <<0, 3, 0, 1, 0, 0, 0>>,
                           <<1, 1, 1, 1, 1, 1, 1, 1>>},
                    n \in 0..MaxProtLen}

Containers ==
    {[n \in StreamNames |->
        CASE n = VERSION_INFORMATION -> v
          [] n = FILE_PROTECTION -> p
          [] OTHER -> o] :
     v \in {NoStream} \cup {Stream(d) : d \in VersionSamples},
     p \in {NoStream} \cup {Stream(d) : d \in ProtectionSamples},
     o \in {NoStream, Stream(<<1>>)}}

\* containers whose version stream ranges over every short byte sequence
VersionInputs ==
    {[n \in StreamNames |->
        CASE n = VERSION_INFORMATION -> v
          [] n = FILE_PROTECTION -> Stream(<<0, 3, 0, 0, 0, 0, 0>>)
          [] OTHER -> NoStream] :
     v \in {NoStream} \cup {Stream(d) : d \in SeqsUpTo({0, 3, 5, 7, 10, 255}, MaxVerInput)}}

\* containers whose protection stream ranges over every short byte sequence
ProtectionInputs ==
    {[n \in StreamNames |->
        CASE n = VERSION_INFORMATION -> Stream(<<0, 7, 3>>)
          [] n = FILE_PROTECTION -> p
          [] OTHER -> NoStream] :
     p \in {NoStream} \cup {Stream(d) : d \in SeqsUpTo({0, 1, 3}, MaxProtInput)}}

NoCall == [op |-> "none", res |-> Err("none")]

\* the batch variables while no batch function runs
BatchOff ==
    /\ bop = "none"
    /\ bfiles = <<>>
    /\ binit = <<>>
    /\ bstate = <<>>
    /\ bres = <<>>
    /\ full = FALSE
    /\ saved = Err("none")
    /\ bret = Err("none")

InitFrom(S) ==
    /\ file \in S
    /\ pc = "idle"
    /\ version = DefaultVersion
    /\ before = file
    /\ prev = NoCall
    /\ last = NoCall
    /\ BatchOff

Init == InitFrom(Containers)
InitVersion == InitFrom(VersionInputs)
InitProtection == InitFrom(ProtectionInputs)

----------------------------------------------------------------------------
(* Calls on one container *)

\* get_version(&path): reads, returns
CallGetVersion ==
    /\ pc = "idle"
    /\ before' = file
    /\ prev' = last
    /\ last' = [op |-> "get_version", res |-> get_version(file)]
    /\ UNCHANGED <<file, pc, version>>
    /\ UNCHANGED bvars

\* is_protected(&path): reads, returns
CallIsProtected ==
    /\ pc = "idle"
    /\ before' = file
    /\ prev' = last
    /\ last' = [op |-> "is_protected", res |-> is_protected(file)]
    /\ UNCHANGED <<file, pc, version>>
    /\ UNCHANGED bvars

\* strip_protection(path) is called
CallStripProtection ==
    /\ pc = "idle"
    /\ before' = file
    /\ prev' = last
    /\ pc' = "open_rw"
    /\ UNCHANGED <<file, version, last>>
    /\ UNCHANGED bvars

Local == [pc |-> pc, file |-> file, version |-> version, res |-> Pending]

\* the running strip_protection moves to local state t
Advance(t) ==
    /\ file' = t.file
    /\ IF t.pc = "return"
       THEN /\ pc' = "idle"
            /\ version' = DefaultVersion
            /\ last' = [op |-> "strip_protection", res |-> t.res]
       ELSE /\ pc' = t.pc
            /\ version' = t.version
            /\ UNCHANGED last
    /\ UNCHANGED <<before, prev>>
    /\ UNCHANGED bvars

StripOpenRw == pc = "open_rw" /\ Advance(strip_open_rw(Local))
StripGetVersion == pc = "get_version" /\ Advance(strip_get_version(Local))
StripCreateFp == pc = "create_fp" /\ Advance(strip_create_fp(Local))
StripOldSetLen ==
    pc = "old_set_len" /\ \E fill \in FillBytes : Advance(strip_old_set_len(Local, fill))
StripOldWrite == pc = "old_write" /\ Advance(strip_old_write(Local))
StripOpenVer == pc = "open_ver" /\ Advance(strip_open_ver(Local))
StripVerWrite == pc = "ver_write" /\ Advance(strip_ver_write(Local))
StripOpenFp == pc = "open_fp" /\ Advance(strip_open_fp(Local))
StripNewSetLen ==
    pc = "new_set_len" /\ \E fill \in FillBytes : Advance(strip_new_set_len(Local, fill))
StripNewWrite == pc = "new_write" /\ Advance(strip_new_write(Local))

StripStep ==
    \/ StripOpenRw
    \/ StripGetVersion
    \/ StripCreateFp
    \/ StripOldSetLen
    \/ StripOldWrite
    \/ StripOpenVer
    \/ StripVerWrite
    \/ StripOpenFp
    \/ StripNewSetLen
    \/ StripNewWrite

\* the `?` of the pending cfb call takes the error branch: the call fails with
\* an I/O error, a write_all after k of its bytes, and strip_protection
\* returns the error without undoing what it wrote
strip_fail(s, k) ==
    CASE s.pc \in {"old_write", "new_write"} ->
           Return([s EXCEPT !.file[FILE_PROTECTION] =
                      Stream(write_all(@.data, SubSeq(UnlockedPattern, 1, k)))],
                  Err("Io(Other)"))
      [] s.pc = "ver_write" ->
           Return([s EXCEPT !.file[VERSION_INFORMATION] =
                      Stream(write_all(@.data, SubSeq(VersionStamp, 1, k)))],
                  Err("Io(Other)"))
      [] OTHER -> Return(s, Err("Io(Other)"))

\* how many bytes a failing call at pc p may have written
WrittenBeforeFailure(p) ==
    CASE p \in {"old_write", "new_write"} -> 0..(Len(UnlockedPattern) - 1)
      [] p = "ver_write" -> 0..(Len(VersionStamp) - 1)
      [] OTHER -> {0}

StripIoFailure ==
    /\ pc \in StripPcs
    /\ \E k \in WrittenBeforeFailure(pc) : Advance(strip_fail(Local, k))

NextRead == CallGetVersion \/ CallIsProtected

Next == CallGetVersion \/ CallIsProtected \/ CallStripProtection \/ StripStep

\* one container, every call, no I/O failure other than a missing or
\* already existing stream
Spec == Init /\ [][Next]_vars
\* the same, and any cfb call of strip_protection may fail
NextFault == Next \/ StripIoFailure
SpecFault == Init /\ [][NextFault]_vars
\* get_version and is_protected on every short version stream
SpecVersion == InitVersion /\ [][NextRead]_vars
\* get_version and is_protected on every short protection stream
SpecProtection == InitProtection /\ [][NextRead]_vars

----------------------------------------------------------------------------
(* The batch functions: files.par_iter().map(single).collect()             *)

BatchOps == {"get_versions", "are_protected", "strip_protections"}

Container(v, p) ==
    [n \in StreamNames |->
        CASE n = VERSION_INFORMATION -> v
          [] n = FILE_PROTECTION -> p
          [] OTHER -> NoStream]

\* a password-locked 7.3, a never-convert 5.10, an old 3.2 without protection
\* stream, a file without version stream, and an unlocked 12.0
BatchContainers ==
    {Container(Stream(<<0, 7, 3>>), Stream(<<1, 1, 1, 1, 1, 1, 1, 1>>)),
     Container(Stream(<<0, 12, 0>>), Stream(<<0, 3, 0, 0, 0, 0, 0>>)),
     Container(Stream(<<0, 5, 10>>), Stream(<<0, 3, 0, 1, 0, 0, 0>>)),
     Container(Stream(<<0, 3, 2>>), NoStream),
     Container(NoStream, Stream(<<0, 3, 0, 0, 0, 0, 0>>))}

Indices == 1..NFiles
NotReturned == [kind |-> "pending", items |-> <<>>, res |-> Err("none")]

InitBatch ==
    /\ bop \in BatchOps
    /\ bfiles \in {l \in [Indices -> BatchContainers] :
                      \A i, j \in Indices : l[i] = l[j] => i = j}
    /\ binit = bfiles
    /\ bstate = [i \in Indices |-> "todo"]
    /\ bres = [i \in Indices |-> Pending]
    /\ full = FALSE
    /\ saved = Err("none")
    /\ bret = NotReturned
    /\ file = Container(NoStream, NoStream)
    /\ pc = "idle"
    /\ version = DefaultVersion
    /\ before = file
    /\ prev = NoCall
    /\ last = NoCall

\* whether the collect of this batch function stops handing out items once
\* one result is an error: collecting into Result<(), FtvFileError> does,
\* collecting into Vec does not
ShortCircuits(op) == op = "strip_protections"

\* a worker takes item i
BatchTake(i) ==
    /\ bret.kind = "pending"
    /\ bstate[i] = "todo"
    /\ ShortCircuits(bop) => ~full
    /\ bstate' = [bstate EXCEPT ![i] = "running"]
    /\ UNCHANGED <<bop, bfiles, binit, bres, full, saved, bret>>
    /\ UNCHANGED svars

\* the closure's result r for item i reaches the collector
Deliver(i, r) ==
    /\ bres' = [bres EXCEPT ![i] = r]
    /\ bstate' = [bstate EXCEPT ![i] = "done"]
    /\ IF ShortCircuits(bop) /\ IsErr(r)
       THEN /\ full' = TRUE
            /\ saved' = IF saved = Err("none") THEN r ELSE saved
       ELSE UNCHANGED <<full, saved>>
    /\ UNCHANGED <<bop, binit, bret>>
    /\ UNCHANGED svars

\* get_versions: |file| get_version(file)
BatchGetVersion(i) ==
    /\ bop = "get_versions"
    /\ bstate[i] = "running"
    /\ Deliver(i, get_version(bfiles[i]))
    /\ UNCHANGED bfiles

\* are_protected: |file| is_protected(file)
BatchIsProtected(i) ==
    /\ bop = "are_protected"
    /\ bstate[i] = "running"
    /\ Deliver(i, is_protected(bfiles[i]))
    /\ UNCHANGED bfiles

\* strip_protections: |file| strip_protection(file)
BatchStripProtection(i) ==
    /\ bop = "strip_protections"
    /\ bstate[i] = "running"
    /\ \E fill \in FillBytes :
           LET o == strip_protection(bfiles[i], fill) IN
           /\ bfiles' = [bfiles EXCEPT ![i] = o.file]
           /\ Deliver(i, o.res)

\* .collect() returns: a Vec of every result in input order, or for
\* strip_protections a single Result, as soon as no worker is running and
\* every item is done or the short-circuit flag is set
BatchCollect ==
    /\ bret.kind = "pending"
    /\ \A i \in Indices : bstate[i] # "running"
    /\ \/ \A i \in Indices : bstate[i] = "done"
       \/ ShortCircuits(bop) /\ full
    /\ bret' = IF ShortCircuits(bop)
               THEN [kind |-> "result", items |-> <<>>,
                     res |-> IF saved = Err("none") THEN Ok(UNIT) ELSE saved]
               ELSE [kind |-> "vec", items |-> bres, res |-> Err("none")]
    /\ UNCHANGED <<bop, bfiles, binit, bstate, bres, full, saved>>
    /\ UNCHANGED svars

NextBatch ==
    \/ \E i \in Indices : BatchTake(i)
    \/ \E i \in Indices : BatchGetVersion(i)
    \/ \E i \in Indices : BatchIsProtected(i)
    \/ \E i \in Indices : BatchStripProtection(i)
    \/ BatchCollect

\* one batch call on NFiles different files, under every interleaving
SpecBatch == InitBatch /\ [][NextBatch]_vars

----------------------------------------------------------------------------
(* Claims *)

Version(f) == f[VERSION_INFORMATION]
Protection(f) == f[FILE_PROTECTION]
Returned(op) == pc = "idle" /\ last.op = op

\* C1: get_version returns NoVersion when /VERSION_INFORMATION is absent,
\* InvalidVersion when it is present with a length other than 3, and otherwise
\* FileVersion{major_rev = bytes[1], minor_rev = bytes[2]} whatever bytes[0]
\* is; it never modifies the container.
C1_GetVersionContract ==
    Returned("get_version") =>
        /\ file = before
        /\ ~Version(before).exists => last.res = Err("NoVersion")
        /\ Version(before).exists /\ Len(Version(before).data) # 3
               => last.res = Err("InvalidVersion")
        /\ Version(before).exists /\ Len(Version(before).data) = 3
               => last.res = Ok([major_rev |-> Version(before).data[2],
                                 minor_rev |-> Version(before).data[3]])

C1_Witness ==
    /\ Returned("get_version")
    /\ Version(before).data = <<255, 7, 3>>
    /\ last.res = Ok([major_rev |-> 7, minor_rev |-> 3])

\* C2 as claimed: on a 7-byte /FILE_PROTECTION stream is_protected returns
\* unprotected when the bytes are 00 03 00 01 00 00 00 and protected for every
\* other content.
C2_AsClaimed ==
    Returned("is_protected") /\ Protection(before).exists
        /\ Len(Protection(before).data) = 7
    => last.res = Ok(Protection(before).data # <<0, 3, 0, 1, 0, 0, 0>>)

\* C2 amended: on a 7-byte /FILE_PROTECTION stream is_protected returns
\* protected when the bytes are 00 03 00 01 00 00 00 and unprotected for every
\* other content.
C2_SevenBytes ==
    Returned("is_protected") /\ Protection(before).exists
        /\ Len(Protection(before).data) = 7
    => last.res = Ok(Protection(before).data = <<0, 3, 0, 1, 0, 0, 0>>)

C2_Witness ==
    /\ Returned("is_protected")
    /\ Protection(before).data = <<0, 3, 0, 1, 0, 0, 0>>
    /\ last.res = Ok(TRUE)

\* C3: on a present /FILE_PROTECTION stream whose length is not 7,
\* is_protected decides from the length alone: protected when the length is
\* greater than 7, unprotected when it is less (the empty stream included).
C3_LengthAlone ==
    Returned("is_protected") /\ Protection(before).exists
        /\ Len(Protection(before).data) # 7
    => last.res = Ok(Len(Protection(before).data) > 7)

C3_Witness ==
    /\ Returned("is_protected")
    /\ Protection(before).data = <<0, 3, 0, 1, 0, 0>>
    /\ last.res = Ok(FALSE)

\* C4: after strip_protection returned success, a following is_protected on
\* the same container returns unprotected.
C4_StrippedReadsUnprotected ==
    Returned("is_protected") /\ prev.op = "strip_protection" /\ prev.res = Ok(UNIT)
    => last.res = Ok(FALSE)

C4_Witness ==
    /\ Returned("is_protected")
    /\ prev.op = "strip_protection"
    /\ prev.res = Ok(UNIT)
    /\ last.res = Ok(FALSE)
    /\ Version(file).data = <<3, 5, 10>>

\* C5: after a strip_protection that succeeded, a second strip_protection
\* called immediately afterwards succeeds too, is_protected is unprotected
\* after each of the two calls, and the second call leaves /FILE_PROTECTION
\* and /VERSION_INFORMATION as the first left them.
C5_Idempotent ==
    Returned("strip_protection") /\ prev.op = "strip_protection"
        /\ prev.res = Ok(UNIT)
    => /\ last.res = Ok(UNIT)
       /\ is_protected(before) = Ok(FALSE)
       /\ is_protected(file) = Ok(FALSE)
       /\ Protection(file) = Protection(before)
       /\ Version(file) = Version(before)

C5_Witness ==
    /\ Returned("strip_protection")
    /\ prev.op = "strip_protection"
    /\ prev.res = Ok(UNIT)
    /\ last.res = Ok(UNIT)
    /\ Version(before).data = <<3, 5, 10>>

\* C6: when major_rev >= 5, a successful strip_protection leaves
\* /FILE_PROTECTION equal to 00 03 00 00 00 00 00, whatever its length was,
\* and every other stream, /VERSION_INFORMATION included, unchanged, so
\* get_version returns the same version as before.
C6_NormalPath ==
    Returned("strip_protection") /\ last.res = Ok(UNIT)
        /\ IsOk(get_version(before)) /\ get_version(before).ok.major_rev >= 5
    => /\ Protection(file) = Stream(<<0, 3, 0, 0, 0, 0, 0>>)
       /\ \A n \in StreamNames \ {FILE_PROTECTION} : file[n] = before[n]
       /\ get_version(file) = get_version(before)

C6_Witness ==
    /\ Returned("strip_protection")
    /\ last.res = Ok(UNIT)
    /\ Version(before).data = <<0, 7, 3>>
    /\ Len(Protection(before).data) = 12
    /\ Protection(file).data = <<0, 3, 0, 0, 0, 0, 0>>

\* C7: when major_rev < 5 and the container has no /FILE_PROTECTION stream,
\* strip_protection succeeds and leaves /FILE_PROTECTION = 00 03 00 00 00 00 00
\* and /VERSION_INFORMATION = 03 05 0A, so get_version returns 5.10 and
\* is_protected returns unprotected.
C7_OldFormatPath ==
    Returned("strip_protection")
        /\ IsOk(get_version(before)) /\ get_version(before).ok.major_rev < 5
        /\ ~Protection(before).exists
    => /\ last.res = Ok(UNIT)
       /\ Protection(file) = Stream(<<0, 3, 0, 0, 0, 0, 0>>)
       /\ Version(file) = Stream(<<3, 5, 10>>)
       /\ get_version(file) = Ok([major_rev |-> 5, minor_rev |-> 10])
       /\ is_protected(file) = Ok(FALSE)

C7_Witness ==
    /\ Returned("strip_protection")
    /\ Version(before).data = <<0, 3, 2>>
    /\ ~Protection(before).exists
    /\ last.res = Ok(UNIT)
    /\ Version(file).data = <<3, 5, 10>>

\* C9: strip_protection returns NoVersion when /VERSION_INFORMATION is absent,
\* InvalidVersion when it is present with a length other than 3, and an Io
\* error when major_rev >= 5 and /FILE_PROTECTION is absent; in all three
\* cases the container is the same after the call as before it.
C9_FailsBeforeFirstWrite ==
    Returned("strip_protection") =>
        /\ ~Version(before).exists
               => last.res = Err("NoVersion") /\ file = before
        /\ Version(before).exists /\ Len(Version(before).data) # 3
               => last.res = Err("InvalidVersion") /\ file = before
        /\ Version(before).exists /\ Len(Version(before).data) = 3
               /\ Version(before).data[2] >= 5 /\ ~Protection(before).exists
               => IsIo(last.res) /\ file = before

C9_Witness ==
    /\ Returned("strip_protection")
    /\ Version(before).data = <<0, 7, 2>>
    /\ ~Protection(before).exists
    /\ last.res = Err("Io(NotFound)")
    /\ file = before

Single(op, f) ==
    CASE op = "get_versions" -> [file |-> f, res |-> get_version(f)]
      [] op = "are_protected" -> [file |-> f, res |-> is_protected(f)]
      [] op = "strip_protections" -> strip_protection(f, 0)

\* C8: a batch function on N paths returns N results, one per input in input
\* order, each the result of the single-file function, and every file has
\* been processed to completion whatever another file's result was.
C8_BatchIsolation ==
    bret.kind # "pending" =>
        /\ \A i \in Indices : bfiles[i] = Single(bop, binit[i]).file
        /\ bret.kind = "vec"
        /\ Len(bret.items) = NFiles
        /\ \A i \in Indices : bret.items[i] = Single(bop, binit[i]).res

====
